---- MODULE Spec2Model ----
(***************************************************************************)
(* Model of saleor/plugins/webhook/plugin.py: the WebhookPlugin, its 23    *)
(* fire-and-forget event entry points, the synchronous process_payment     *)
(* entry point and the nested webhook_response_to_gateway_response         *)
(* translation.                                                            *)
(***************************************************************************)
EXTENDS Integers, Sequences, FiniteSets, TLC

VARIABLES
    active,      \* WebhookPlugin.active (plugin.py:42)
    is_active,   \* Webhook.is_active of every stored webhook subscription
    jobs,        \* tasks submitted with trigger_webhooks_for_event.delay, oldest first
    calls,       \* names of the entry points that passed the gate and submitted, oldest first
    last,        \* observation of the most recent entry-point call
    tr           \* one run of webhook_response_to_gateway_response

vars == <<active, is_active, jobs, calls, last, tr>>

-----------------------------------------------------------------------------
(* Bounds of the model *)

\* longest task queue explored
MaxJobs == 1

\* most keys in a decoded response body
MaxBodyKeys == 2

-----------------------------------------------------------------------------
(* Values: Python/JSON values are tagged so that any two can be compared.  *)
(* JSON null decodes to Python None.                                       *)

JNull == [t |-> "null", v |-> ""]

JStr(s) == [t |-> "string", v |-> s]

JBool(b) == [t |-> "bool", v |-> IF b THEN "true" ELSE "false"]

JNum(n) == [t |-> "number", v |-> n]

None == JNull

\* Python truth value of a decoded JSON scalar, as used by `not error`
Truthy(x) ==
    CASE x.t = "null" -> FALSE
      [] x.t = "bool" -> x.v = "true"
      [] x.t = "string" -> x.v # ""
      [] x.t = "number" -> x.v # "0"

\* dict.get(key, default)
GetDefault(d, key, default) == IF key \in DOMAIN d THEN d[key] ELSE default

\* dict.get(key)
Get(d, key) == GetDefault(d, key, None)

HTTP_OK == 200

CAPTURE == "capture"

PAYMENT_PROCESS == "PAYMENT_PROCESS"

NoGatewayResponse == [absent |-> TRUE]

EmptyBody == [k \in {} |-> JNull]

-----------------------------------------------------------------------------------------------------------------------------------------------------
(* Response Translator: plugin.py:239-268.  `response.decodes` is what     *)
(* response.json() finds in the body: "object" (a JSON object, decoded to  *)
(* response.json), "array" (valid JSON that is no object, so .get fails)   *)
(* or "invalid" (response.json() raises ValueError).                       *)

\* Mutant: the status code is not looked at.
IsSuccessWhateverStatus(response, error) == ~Truthy(error)

\* is_success = response.status_code == 200 and not error (plugin.py:245)
IsSuccess(response, error) == response.status_code = HTTP_OK /\ ~Truthy(error)

\* Mutant: expiry month and year are taken from each other's key.
PaymentMethodInfoSwapped(response_json) ==
    [brand |-> Get(response_json, "payment_method_brand"),
     exp_month |-> Get(response_json, "payment_method_exp_year"),
     exp_year |-> Get(response_json, "payment_method_exp_month"),
     last_4 |-> Get(response_json, "payment_method_last_4"),
     name |-> Get(response_json, "payment_method_name"),
     type |-> Get(response_json, "payment_method_type")]

\* PaymentMethodInfo(...) (plugin.py:247-254)
PaymentMethodInfo(response_json) ==
    [brand |-> Get(response_json, "payment_method_brand"),
     exp_month |-> Get(response_json, "payment_method_exp_month"),
     exp_year |-> Get(response_json, "payment_method_exp_year"),
     last_4 |-> Get(response_json, "payment_method_last_4"),
     name |-> Get(response_json, "payment_method_name"),
     type |-> Get(response_json, "payment_method_type")]

\* Mutant: amount and currency are read from the body when it has them.
webhook_response_to_gateway_response_trusting(response, payment_information) ==
    IF response.decodes = "invalid"
    THEN [raised |-> "ValueError", gateway |-> NoGatewayResponse]
    ELSE IF response.decodes = "array"
    THEN [raised |-> "AttributeError", gateway |-> NoGatewayResponse]
    ELSE
    LET response_json == response.json
        error == Get(response_json, "error")
    IN [raised |-> "none",
        gateway |->
            [action_required |-> GetDefault(response_json, "action_required", JBool(FALSE)),
             action_required_data |-> Get(response_json, "action_required_data"),
             amount |-> GetDefault(response_json, "amount", payment_information.amount),
             currency |-> GetDefault(response_json, "currency", payment_information.currency),
             customer_id |-> Get(response_json, "customer_id"),
             error |-> error,
             is_success |-> IsSuccess(response, error),
             kind |-> CAPTURE,
             transaction_id |-> Get(response_json, "transaction_id"),
             payment_method_info |-> PaymentMethodInfo(response_json),
             raw_response |-> response_json]]

\* The result is either a raised exception or the GatewayResponse.
webhook_response_to_gateway_response(response, payment_information) ==
    IF response.decodes = "invalid"
    THEN [raised |-> "ValueError", gateway |-> NoGatewayResponse]
    ELSE IF response.decodes = "array"
    THEN [raised |-> "AttributeError", gateway |-> NoGatewayResponse]
    ELSE
    LET response_json == response.json
        error == Get(response_json, "error")
    IN [raised |-> "none",
        gateway |->
            [action_required |-> GetDefault(response_json, "action_required", JBool(FALSE)),
             action_required_data |-> Get(response_json, "action_required_data"),
             amount |-> payment_information.amount,
             currency |-> payment_information.currency,
             customer_id |-> Get(response_json, "customer_id"),
             error |-> error,
             is_success |-> IsSuccess(response, error),
             kind |-> CAPTURE,
             transaction_id |-> Get(response_json, "transaction_id"),
             payment_method_info |-> PaymentMethodInfo(response_json),
             raw_response |-> response_json]]

-----
(* Inputs of the translation *)

BodyKeys ==
    {"error", "action_required", "action_required_data", "customer_id",
     "transaction_id", "payment_method_brand", "payment_method_exp_month",
     "payment_method_exp_year", "payment_method_last_4", "payment_method_name",
     "payment_method_type", "amount", "currency"}

JsonValues ==
    {JNull, JStr(""), JStr("declined"), JStr("tx_1"), JBool(FALSE), JBool(TRUE),
     JNum("999")}

\* decoded JSON objects with at most MaxBodyKeys keys
Bodies ==
    UNION {[K -> JsonValues] :
             K \in {S \in SUBSET BodyKeys : Cardinality(S) <= MaxBodyKeys}}

StatusCodes == {HTTP_OK, 402}

\* what trigger_webhook_sync hands back when the request completes
ObjectResponse(status, body) ==
    [delivered |-> TRUE, status_code |-> status, decodes |-> "object", json |-> body]

ArrayResponse ==
    [delivered |-> TRUE, status_code |-> HTTP_OK, decodes |-> "array", json |-> EmptyBody]

InvalidResponse ==
    [delivered |-> TRUE, status_code |-> HTTP_OK, decodes |-> "invalid", json |-> EmptyBody]

\* the request timed out or the connection failed: no response exists
DeliveryFailure ==
    [delivered |-> FALSE, status_code |-> 0, decodes |-> "invalid", json |-> EmptyBody]

NoResponse ==
    [delivered |-> FALSE, status_code |-> -1, decodes |-> "invalid", json |-> EmptyBody]

Responses ==
    {ObjectResponse(s, b) : s \in StatusCodes, b \in Bodies}
        \cup {ArrayResponse, InvalidResponse}

\* PaymentData as far as the plugin reads it: payment_id, amount, currency
PaymentInformations ==
    {[payment_id |-> "payment_1", amount |-> JNum("10"), currency |-> JStr("USD")],
     [payment_id |-> "payment_2", amount |-> JNum("25"), currency |-> JStr("EUR")]}

NoPaymentInformation ==
    [payment_id |-> "-", amount |-> JNull, currency |-> JNull]

TrIdle ==
    [phase |-> "idle", response |-> NoResponse,
     payment_information |-> NoPaymentInformation,
     raised |-> "none", gateway |-> NoGatewayResponse]

-----------------------------------------------------------------------------
(* Stored data the plugin reads: webhook subscriptions of the installed    *)
(* apps, and the payments with the gateway that names their app.           *)

Webhooks == {"wh_1", "wh_2", "wh_3", "wh_4"}

\* Webhook.app and Webhook.events of the stored subscriptions
WebhookTable ==
    [wh_1 |-> [app |-> "app_1", events |-> {PAYMENT_PROCESS}],
     wh_2 |-> [app |-> "app_1", events |-> {PAYMENT_PROCESS, "ORDER_UPDATED"}],
     wh_3 |-> [app |-> "app_1", events |-> {"ORDER_CREATED"}],
     wh_4 |-> [app |-> "app_2", events |-> {PAYMENT_PROCESS}]]

\* a Webhook instance as loaded by the query: its fields at that moment
WebhookRow(w) == [pk |-> w, app |-> WebhookTable[w].app, is_active |-> is_active[w]]

NoWebhook == [pk |-> "-", app |-> "-", is_active |-> FALSE]

\* Payment.objects.get(pk=payment_id).gateway
PaymentGateway == [payment_1 |-> "app:1", payment_2 |-> "app:2"]

\* saleor.plugins.manager.from_payment_app_id: the app a gateway id names
from_payment_app_id(gateway) ==
    CASE gateway = "app:1" -> "app_1"
      [] gateway = "app:2" -> "app_2"

PreviousValues == {"previous_a", "previous_b"}

-----------------------------------------------------------------------------
(* Payload Codec (saleor/webhook/payloads.py): each generator is a pure    *)
(* function of the objects it is given.                                    *)

generate_order_payload(order) == [codec |-> "order", of |-> <<order>>]

generate_invoice_payload(invoice) == [codec |-> "invoice", of |-> <<invoice>>]

generate_fulfillment_payload(fulfillment) == [codec |-> "fulfillment", of |-> <<fulfillment>>]

generate_customer_payload(customer) == [codec |-> "customer", of |-> <<customer>>]

generate_product_payload(product) == [codec |-> "product", of |-> <<product>>]

generate_product_deleted_payload(product, variants) ==
    [codec |-> "product_deleted", of |-> <<product, variants>>]

generate_product_variant_payload(product_variant) ==
    [codec |-> "product_variant", of |-> <<product_variant>>]

generate_checkout_payload(checkout) == [codec |-> "checkout", of |-> <<checkout>>]

generate_page_payload(page) == [codec |-> "page", of |-> <<page>>]

generate_payment_payload(payment_information) ==
    [codec |-> "payment", of |-> <<payment_information.payment_id>>]

NoPayload == [codec |-> "-", of |-> <<>>]

\* domain objects handed to the entry points, one of each category
Orders == {"order_1"}

Invoices == {"invoice_1"}

Numbers == {"INV-1"}

Emails == {"a@example.com"}

Fulfillments == {"fulfillment_1"}

Customers == {"user_1"}

Products == {"product_1"}

VariantLists == {"[1, 2]"}

ProductVariants == {"variant_1"}

Checkouts == {"checkout_1"}

Pages == {"page_1"}

-----------------------------------------------------------------------------
(* What one entry-point call did, kept for inspection after it returns:    *)
(* its arguments, the value of self.active it read, the steps it went      *)
(* through in order, and how it ended (ret is "previous_value", "None",    *)
(* "GatewayResponse" or "raise").                                          *)

NoCall ==
    [entry |-> "none", previous_value |-> "-", gate |-> FALSE, args |-> <<>>,
     steps |-> <<>>, payload |-> NoPayload, subscribers |-> {},
     webhook |-> NoWebhook, response |-> NoResponse,
     payment_information |-> NoPaymentInformation, enqueued |-> 0,
     ret |-> "-", retval |-> "-", raised |-> "none", gateway |-> NoGatewayResponse]

\* active webhooks subscribed to event_type, over all apps (what the
\* trigger_webhooks_for_event task would find if it ran now)
SubscribersOf(event_type) ==
    {w \in Webhooks : is_active[w] /\ event_type \in WebhookTable[w].events}

\* "if not self.active: return previous_value", the first statement of
\* every entry point
ReturnPreviousValue(entry, args, previous_value) ==
    [NoCall EXCEPT !.entry = entry, !.previous_value = previous_value,
                   !.gate = FALSE, !.args = args, !.steps = <<"gate">>,
                   !.ret = "previous_value", !.retval = previous_value]

\* trigger_webhooks_for_event.delay(event_type, data): one task on the queue
Delay(queue, event_type, data) ==
    Append(queue, [task |-> "trigger_webhooks_for_event",
                   event_type |-> event_type, data |-> data])

\* Mutants of the entry-point body: one that skips the gate, one that
\* selects subscriptions first and submits only when some match.
EventEntryPointUngated(entry, event_type, args, data, previous_value) ==
    /\ Len(jobs) < MaxJobs
    /\ jobs' = Delay(jobs, event_type, data)
    /\ calls' = Append(calls, entry)
    /\ last' = [NoCall EXCEPT !.entry = entry, !.previous_value = previous_value,
                              !.gate = active, !.args = args,
                              !.steps = <<"gate", "payload", "enqueue">>,
                              !.payload = data,
                              !.subscribers = SubscribersOf(event_type),
                              !.enqueued = Len(jobs') - Len(jobs),
                              !.ret = "None"]
    /\ UNCHANGED <<active, is_active, tr>>

EventEntryPointSelecting(entry, event_type, args, data, previous_value) ==
    /\ IF ~active
       THEN /\ UNCHANGED <<jobs, calls>>
            /\ last' = [ReturnPreviousValue(entry, args, previous_value)
                          EXCEPT !.enqueued = Len(jobs') - Len(jobs)]
       ELSE /\ Len(calls) < MaxJobs
            /\ jobs' = IF SubscribersOf(event_type) = {}
                       THEN jobs ELSE Delay(jobs, event_type, data)
            /\ calls' = Append(calls, entry)
            /\ last' = [NoCall EXCEPT !.entry = entry, !.previous_value = previous_value,
                                      !.gate = TRUE, !.args = args,
                                      !.steps = <<"gate", "payload", "enqueue">>,
                                      !.payload = data,
                                      !.subscribers = SubscribersOf(event_type),
                                      !.enqueued = Len(jobs') - Len(jobs),
                                      !.ret = "None"]
    /\ UNCHANGED <<active, is_active, tr>>

EventEntryPointSameEvent(entry, event_type, args, data, previous_value) ==
    /\ IF ~active
       THEN /\ UNCHANGED <<jobs, calls>>
            /\ last' = [ReturnPreviousValue(entry, args, previous_value)
                          EXCEPT !.enqueued = Len(jobs') - Len(jobs)]
       ELSE /\ Len(jobs) < MaxJobs
            /\ jobs' = Delay(jobs, "ORDER_CREATED", data)
            /\ calls' = Append(calls, entry)
            /\ last' = [NoCall EXCEPT !.entry = entry, !.previous_value = previous_value,
                                      !.gate = TRUE, !.args = args,
                                      !.steps = <<"gate", "payload", "enqueue">>,
                                      !.payload = data,
                                      !.subscribers = SubscribersOf(event_type),
                                      !.enqueued = Len(jobs') - Len(jobs),
                                      !.ret = "None"]
    /\ UNCHANGED <<active, is_active, tr>>

\* The body shared by the 23 fire-and-forget entry points (plugin.py:44-212):
\* gate, payload, submission; nothing is returned when the gate is open.
\* `data` is the payload the entry point builds once past the gate.
EventEntryPoint(entry, event_type, args, data, previous_value) ==
    /\ IF ~active
       THEN /\ UNCHANGED <<jobs, calls>>
            /\ last' = [ReturnPreviousValue(entry, args, previous_value)
                          EXCEPT !.enqueued = Len(jobs') - Len(jobs)]
       ELSE /\ Len(jobs) < MaxJobs
            /\ jobs' = Delay(jobs, event_type, data)
            /\ calls' = Append(calls, entry)
            /\ last' = [NoCall EXCEPT !.entry = entry, !.previous_value = previous_value,
                                      !.gate = TRUE, !.args = args,
                                      !.steps = <<"gate", "payload", "enqueue">>,
                                      !.payload = data,
                                      !.subscribers = SubscribersOf(event_type),
                                      !.enqueued = Len(jobs') - Len(jobs),
                                      !.ret = "None"]
    /\ UNCHANGED <<active, is_active, tr>>

order_created ==
    \E order \in Orders, previous_value \in PreviousValues :
        EventEntryPoint("order_created", "ORDER_CREATED", <<order>>,
                        generate_order_payload(order), previous_value)

order_confirmed ==
    \E order \in Orders, previous_value \in PreviousValues :
        EventEntryPoint("order_confirmed", "ORDER_CONFIRMED", <<order>>,
                        generate_order_payload(order), previous_value)

order_fully_paid ==
    \E order \in Orders, previous_value \in PreviousValues :
        EventEntryPoint("order_fully_paid", "ORDER_FULLY_PAID", <<order>>,
                        generate_order_payload(order), previous_value)

order_updated ==
    \E order \in Orders, previous_value \in PreviousValues :
        EventEntryPoint("order_updated", "ORDER_UPDATED", <<order>>,
                        generate_order_payload(order), previous_value)

invoice_request ==
    \E order \in Orders, invoice \in Invoices, number \in Numbers,
       previous_value \in PreviousValues :
        EventEntryPoint("invoice_request", "INVOICE_REQUESTED",
                        <<order, invoice, number>>,
                        generate_invoice_payload(invoice), previous_value)

invoice_delete ==
    \E invoice \in Invoices, previous_value \in PreviousValues :
        EventEntryPoint("invoice_delete", "INVOICE_DELETED", <<invoice>>,
                        generate_invoice_payload(invoice), previous_value)

invoice_sent ==
    \E invoice \in Invoices, email \in Emails, previous_value \in PreviousValues :
        EventEntryPoint("invoice_sent", "INVOICE_SENT", <<invoice, email>>,
                        generate_invoice_payload(invoice), previous_value)

order_cancelled ==
    \E order \in Orders, previous_value \in PreviousValues :
        EventEntryPoint("order_cancelled", "ORDER_CANCELLED", <<order>>,
                        generate_order_payload(order), previous_value)

order_fulfilled ==
    \E order \in Orders, previous_value \in PreviousValues :
        EventEntryPoint("order_fulfilled", "ORDER_FULFILLED", <<order>>,
                        generate_order_payload(order), previous_value)

fulfillment_created ==
    \E fulfillment \in Fulfillments, previous_value \in PreviousValues :
        EventEntryPoint("fulfillment_created", "FULFILLMENT_CREATED", <<fulfillment>>,
                        generate_fulfillment_payload(fulfillment), previous_value)

customer_created ==
    \E customer \in Customers, previous_value \in PreviousValues :
        EventEntryPoint("customer_created", "CUSTOMER_CREATED", <<customer>>,
                        generate_customer_payload(customer), previous_value)

customer_updated ==
    \E customer \in Customers, previous_value \in PreviousValues :
        EventEntryPoint("customer_updated", "CUSTOMER_UPDATED", <<customer>>,
                        generate_customer_payload(customer), previous_value)

product_created ==
    \E product \in Products, previous_value \in PreviousValues :
        EventEntryPoint("product_created", "PRODUCT_CREATED", <<product>>,
                        generate_product_payload(product), previous_value)

product_updated ==
    \E product \in Products, previous_value \in PreviousValues :
        EventEntryPoint("product_updated", "PRODUCT_UPDATED", <<product>>,
                        generate_product_payload(product), previous_value)

product_deleted ==
    \E product \in Products, variants \in VariantLists,
       previous_value \in PreviousValues :
        EventEntryPoint("product_deleted", "PRODUCT_DELETED", <<product, variants>>,
                        generate_product_deleted_payload(product, variants),
                        previous_value)

product_variant_created ==
    \E product_variant \in ProductVariants, previous_value \in PreviousValues :
        EventEntryPoint("product_variant_created", "PRODUCT_VARIANT_CREATED",
                        <<product_variant>>,
                        generate_product_variant_payload(product_variant),
                        previous_value)

product_variant_updated ==
    \E product_variant \in ProductVariants, previous_value \in PreviousValues :
        EventEntryPoint("product_variant_updated", "PRODUCT_VARIANT_UPDATED",
                        <<product_variant>>,
                        generate_product_variant_payload(product_variant),
                        previous_value)

product_variant_deleted ==
    \E product_variant \in ProductVariants, previous_value \in PreviousValues :
        EventEntryPoint("product_variant_deleted", "PRODUCT_VARIANT_DELETED",
                        <<product_variant>>,
                        generate_product_variant_payload(product_variant),
                        previous_value)

checkout_created ==
    \E checkout \in Checkouts, previous_value \in PreviousValues :
        EventEntryPoint("checkout_created", "CHECKOUT_CREATED", <<checkout>>,
                        generate_checkout_payload(checkout), previous_value)

\* the member is spelled CHECKOUT_UPADTED in WebhookEventType (plugin.py:193)
checkout_updated ==
    \E checkout \in Checkouts, previous_value \in PreviousValues :
        EventEntryPoint("checkout_updated", "CHECKOUT_UPADTED", <<checkout>>,
                        generate_checkout_payload(checkout), previous_value)

page_created ==
    \E page \in Pages, previous_value \in PreviousValues :
        EventEntryPoint("page_created", "PAGE_CREATED", <<page>>,
                        generate_page_payload(page), previous_value)

page_updated ==
    \E page \in Pages, previous_value \in PreviousValues :
        EventEntryPoint("page_updated", "PAGE_UPDATED", <<page>>,
                        generate_page_payload(page), previous_value)

page_deleted ==
    \E page \in Pages, previous_value \in PreviousValues :
        EventEntryPoint("page_deleted", "PAGE_DELETED", <<page>>,
                        generate_page_payload(page), previous_value)

-----------------------------------------------------------------------------
(* process_payment (plugin.py:214-273)                                     *)

\* tasks.trigger_webhook_sync(webhook, event_type, data): one blocking request;
\* it either fails (timeout, connection failure) or returns the response,
\* whose body may or may not decode
trigger_webhook_sync(webhook, event_type, data) ==
    {DeliveryFailure, InvalidResponse, ArrayResponse,
     ObjectResponse(HTTP_OK, EmptyBody),
     ObjectResponse(HTTP_OK, [k \in {"error"} |-> JStr("declined")]),
     ObjectResponse(402, [k \in {"transaction_id"} |-> JStr("tx_1")])}

\* Mutant of the query: the is_active condition is left out.
payment_webhooks_any_state(app_id) ==
    {w \in Webhooks : /\ WebhookTable[w].app = app_id
                      /\ PAYMENT_PROCESS \in WebhookTable[w].events}

\* app.webhooks.filter(is_active=True, events__event_type=PAYMENT_PROCESS)
\* (plugin.py:228-229)
payment_webhooks(app_id) ==
    {w \in Webhooks : /\ WebhookTable[w].app = app_id
                      /\ is_active[w]
                      /\ PAYMENT_PROCESS \in WebhookTable[w].events}

\* the call up to the failed [0] on an empty query (plugin.py:225-230)
PaymentCallNoWebhook(payment_information, previous_value) ==
    [NoCall EXCEPT !.entry = "process_payment", !.previous_value = previous_value,
                   !.gate = TRUE, !.args = <<payment_information.payment_id>>,
                   !.payment_information = payment_information,
                   !.steps = <<"gate", "resolve", "select">>,
                   !.ret = "raise", !.raised = "IndexError"]

\* Mutant of the rest of the call: a failed request is sent a second time.
PaymentCallRetrying(payment_information, previous_value, found, webhook, response) ==
    LET webhook_payload == generate_payment_payload(payment_information)
        sent == [NoCall EXCEPT !.entry = "process_payment",
                               !.previous_value = previous_value,
                               !.gate = TRUE,
                               !.args = <<payment_information.payment_id>>,
                               !.payment_information = payment_information,
                               !.subscribers = found,
                               !.webhook = webhook,
                               !.payload = webhook_payload,
                               !.response = response,
                               !.steps = <<"gate", "resolve", "select", "payload",
                                           "invoke">>]
        translated == webhook_response_to_gateway_response(response, payment_information)
    IN IF ~response.delivered
       THEN [sent EXCEPT !.steps = Append(sent.steps, "invoke"),
                         !.ret = "raise", !.raised = "DeliveryError"]
       ELSE IF translated.raised # "none"
       THEN [sent EXCEPT !.steps = Append(sent.steps, "translate"),
                         !.ret = "raise", !.raised = translated.raised]
       ELSE [sent EXCEPT !.steps = Append(sent.steps, "translate"),
                         !.ret = "GatewayResponse",
                         !.gateway = translated.gateway]

\* the rest of the call once webhook = found[0] (plugin.py:231-273): payload,
\* one trigger_webhook_sync call with outcome `response`, translation, return
PaymentCall(payment_information, previous_value, found, webhook, response) ==
    LET webhook_payload == generate_payment_payload(payment_information)
        sent == [NoCall EXCEPT !.entry = "process_payment",
                               !.previous_value = previous_value,
                               !.gate = TRUE,
                               !.args = <<payment_information.payment_id>>,
                               !.payment_information = payment_information,
                               !.subscribers = found,
                               !.webhook = webhook,
                               !.payload = webhook_payload,
                               !.response = response,
                               !.steps = <<"gate", "resolve", "select", "payload",
                                           "invoke">>]
        translated == webhook_response_to_gateway_response(response, payment_information)
    IN IF ~response.delivered
       THEN [sent EXCEPT !.ret = "raise", !.raised = "DeliveryError"]
       ELSE IF translated.raised # "none"
       THEN [sent EXCEPT !.steps = Append(sent.steps, "translate"),
                         !.ret = "raise", !.raised = translated.raised]
       ELSE [sent EXCEPT !.steps = Append(sent.steps, "translate"),
                         !.ret = "GatewayResponse",
                         !.gateway = translated.gateway]

\* The query result has no stated order, so [0] is any of its rows.
process_payment ==
    \E payment_information \in PaymentInformations, previous_value \in PreviousValues :
        /\ UNCHANGED <<active, is_active, jobs, calls, tr>>
        /\ \E call \in
               IF ~active
               THEN {[ReturnPreviousValue("process_payment",
                                          <<payment_information.payment_id>>,
                                          previous_value)
                        EXCEPT !.payment_information = payment_information]}
               ELSE LET gateway == PaymentGateway[payment_information.payment_id]
                        app_id == from_payment_app_id(gateway)
                        found == payment_webhooks(app_id)
                    IN IF found = {}
                       THEN {PaymentCallNoWebhook(payment_information, previous_value)}
                       ELSE UNION {{PaymentCall(payment_information, previous_value,
                                                found, WebhookRow(w), response) :
                                      response \in trigger_webhook_sync(
                                          WebhookRow(w), PAYMENT_PROCESS,
                                          generate_payment_payload(payment_information))} :
                                   w \in found} :
              last' = [call EXCEPT !.enqueued = Len(jobs') - Len(jobs)]

-----------------------------------------------------------------------------
(* The surroundings: the host switches the plugin on and off, installation *)
(* management switches webhook subscriptions on and off.                   *)

SetActive ==
    /\ active' = ~active
    /\ UNCHANGED <<is_active, jobs, calls, last, tr>>

SetWebhookIsActive ==
    \E w \in Webhooks :
        /\ is_active' = [is_active EXCEPT ![w] = ~is_active[w]]
        /\ UNCHANGED <<active, jobs, calls, last, tr>>

-----------------------------------------------------------------------------
(* The plugin as a state machine *)

Init ==
    /\ active = TRUE
    /\ is_active = [w \in Webhooks |-> TRUE]
    /\ jobs = <<>>
    /\ calls = <<>>
    /\ last = NoCall
    /\ tr = TrIdle

Next ==
    \/ order_created
    \/ order_confirmed
    \/ order_fully_paid
    \/ order_updated
    \/ invoice_request
    \/ invoice_delete
    \/ invoice_sent
    \/ order_cancelled
    \/ order_fulfilled
    \/ fulfillment_created
    \/ customer_created
    \/ customer_updated
    \/ product_created
    \/ product_updated
    \/ product_deleted
    \/ product_variant_created
    \/ product_variant_updated
    \/ product_variant_deleted
    \/ checkout_created
    \/ checkout_updated
    \/ page_created
    \/ page_updated
    \/ page_deleted
    \/ process_payment
    \/ SetActive

Spec == Init /\ [][Next]_vars

\* The payment path while subscriptions are switched on and off.
NextPayment ==
    \/ process_payment
    \/ SetActive
    \/ SetWebhookIsActive

SpecPayment == Init /\ [][NextPayment]_vars

-----------------------------------------------------------------------------
(* The translation on its own: every response and payment of the input    *)
(* sets is translated once.                                                *)

InitTranslate ==
    /\ active = TRUE
    /\ is_active = [w \in Webhooks |-> TRUE]
    /\ jobs = <<>>
    /\ calls = <<>>
    /\ last = NoCall
    /\ \E response \in Responses, payment_information \in PaymentInformations :
          tr = [TrIdle EXCEPT !.phase = "response", !.response = response,
                              !.payment_information = payment_information]

Translate ==
    /\ tr.phase = "response"
    /\ LET translated ==
               webhook_response_to_gateway_response(tr.response, tr.payment_information)
       IN tr' = [tr EXCEPT !.phase = "done", !.raised = translated.raised,
                           !.gateway = translated.gateway]
    /\ UNCHANGED <<active, is_active, jobs, calls, last>>

NextTranslate == Translate

SpecTranslate == InitTranslate /\ [][NextTranslate]_vars

-----------------------------------------------------------------------------
(* Vocabulary of the properties *)

EventEntryPoints ==
    {"order_created", "order_confirmed", "order_fully_paid", "order_updated",
     "invoice_request", "invoice_delete", "invoice_sent", "order_cancelled",
     "order_fulfilled", "fulfillment_created", "customer_created",
     "customer_updated", "product_created", "product_updated", "product_deleted",
     "product_variant_created", "product_variant_updated",
     "product_variant_deleted", "checkout_created", "checkout_updated",
     "page_created", "page_updated", "page_deleted"}

IsEventCall == last.entry \in EventEntryPoints

IsPaymentCall == last.entry = "process_payment"

Count(seq, x) == Cardinality({i \in DOMAIN seq : seq[i] = x})

IsPrefix(s, t) == Len(s) <= Len(t) /\ \A i \in DOMAIN s : s[i] = t[i]

PaymentSteps == <<"gate", "resolve", "select", "payload", "invoke", "translate">>

Translated == tr.phase = "done" /\ tr.raised = "none"

TrBody == tr.response.json

\* the event type each entry point is expected to announce
OwnEventType ==
    [order_created |-> "ORDER_CREATED",
     order_confirmed |-> "ORDER_CONFIRMED",
     order_fully_paid |-> "ORDER_FULLY_PAID",
     order_updated |-> "ORDER_UPDATED",
     invoice_request |-> "INVOICE_REQUESTED",
     invoice_delete |-> "INVOICE_DELETED",
     invoice_sent |-> "INVOICE_SENT",
     order_cancelled |-> "ORDER_CANCELLED",
     order_fulfilled |-> "ORDER_FULFILLED",
     fulfillment_created |-> "FULFILLMENT_CREATED",
     customer_created |-> "CUSTOMER_CREATED",
     customer_updated |-> "CUSTOMER_UPDATED",
     product_created |-> "PRODUCT_CREATED",
     product_updated |-> "PRODUCT_UPDATED",
     product_deleted |-> "PRODUCT_DELETED",
     product_variant_created |-> "PRODUCT_VARIANT_CREATED",
     product_variant_updated |-> "PRODUCT_VARIANT_UPDATED",
     product_variant_deleted |-> "PRODUCT_VARIANT_DELETED",
     checkout_created |-> "CHECKOUT_CREATED",
     checkout_updated |-> "CHECKOUT_UPADTED",
     page_created |-> "PAGE_CREATED",
     page_updated |-> "PAGE_UPDATED",
     page_deleted |-> "PAGE_DELETED"]

\* the payload each entry point is expected to submit for its arguments
OwnPayload(entry, args) ==
    CASE entry \in {"order_created", "order_confirmed", "order_fully_paid",
                    "order_updated", "order_cancelled", "order_fulfilled"} ->
            [codec |-> "order", of |-> <<args[1]>>]
      [] entry = "invoice_request" -> [codec |-> "invoice", of |-> <<args[2]>>]
      [] entry \in {"invoice_delete", "invoice_sent"} ->
            [codec |-> "invoice", of |-> <<args[1]>>]
      [] entry = "fulfillment_created" -> [codec |-> "fulfillment", of |-> <<args[1]>>]
      [] entry \in {"customer_created", "customer_updated"} ->
            [codec |-> "customer", of |-> <<args[1]>>]
      [] entry \in {"product_created", "product_updated"} ->
            [codec |-> "product", of |-> <<args[1]>>]
      [] entry = "product_deleted" ->
            [codec |-> "product_deleted", of |-> <<args[1], args[2]>>]
      [] entry \in {"product_variant_created", "product_variant_updated",
                    "product_variant_deleted"} ->
            [codec |-> "product_variant", of |-> <<args[1]>>]
      [] entry \in {"checkout_created", "checkout_updated"} ->
            [codec |-> "checkout", of |-> <<args[1]>>]
      [] entry \in {"page_created", "page_updated", "page_deleted"} ->
            [codec |-> "page", of |-> <<args[1]>>]

\* the body's value under key when the key is present, absent (None) otherwise
FieldOf(body, key) == IF key \in DOMAIN body THEN body[key] ELSE None

\* no error key, or null or the empty string under it
ErrorAbsentOrEmpty(body) ==
    "error" \notin DOMAIN body \/ body["error"] \in {JNull, JStr("")}

\* no error key, or a value Python counts as false under it
ErrorAbsentOrFalsy(body) ==
    \/ "error" \notin DOMAIN body
    \/ body["error"] \in {JNull, JStr(""), JBool(FALSE), JNum("0")}

-----------------------------------------------------------------------------
(* Properties *)

\* C1: a call of any entry point (the 23 event entry points and
\* process_payment) that finds the plugin inactive does nothing but the gate
\* check: it builds no payload, selects no subscription, submits no job,
\* makes no synchronous webhook call, and returns exactly the previous_value
\* it was given, whatever calls came before.
C1_InactiveIsNoOp ==
    (last.entry # "none" /\ ~last.gate) =>
        /\ last.steps = <<"gate">>
        /\ last.payload = NoPayload
        /\ last.webhook = NoWebhook
        /\ last.response = NoResponse
        /\ last.enqueued = 0
        /\ last.raised = "none"
        /\ last.ret = "previous_value"
        /\ last.retval = last.previous_value

C1_Witness ==
    /\ last.entry = "order_fulfilled"
    /\ ~last.gate
    /\ last.retval = "previous_b"
    /\ Len(jobs) = 1

\* C2: an active process_payment whose app has no active PAYMENT_PROCESS
\* webhook returns a GatewayResponse with is_success false and a non-empty
\* error, and raises nothing.
C2_ZeroMatchFailedResponse ==
    (IsPaymentCall /\ last.gate /\ last.webhook = NoWebhook) =>
        /\ last.raised = "none"
        /\ last.ret = "GatewayResponse"
        /\ ~last.gateway.is_success
        /\ Truthy(last.gateway.error)

\* C3: when the synchronous call fails (timeout, connection failure) or the
\* response body does not decode, process_payment returns a failed
\* GatewayResponse (is_success false, error populated), raises nothing and
\* never reports success.
C3_SyncFailureFailedResponse ==
    (/\ IsPaymentCall
     /\ last.gate
     /\ last.webhook # NoWebhook
     /\ (~last.response.delivered \/ last.response.decodes = "invalid")) =>
        /\ last.raised = "none"
        /\ last.ret = "GatewayResponse"
        /\ ~last.gateway.is_success
        /\ Truthy(last.gateway.error)

\* C4 as stated: the translated response is successful exactly when the
\* status is 200 and the body's error is absent or empty (null or ""), and
\* its error is the body's error.
C4_SuccessIffOkAndErrorEmpty ==
    Translated =>
        /\ tr.gateway.is_success <=>
              (tr.response.status_code = 200 /\ ErrorAbsentOrEmpty(TrBody))
        /\ tr.gateway.error = FieldOf(TrBody, "error")

\* C4 amended: the translated response is successful exactly when the status
\* is 200 and the body's error is absent or false in Python's sense (null,
\* "", false, 0); 200 with {} succeeds with no error, 200 with a non-empty
\* error string fails, any other status fails; the result's error is the
\* body's error.
C4_SuccessIffOkAndErrorFalsy ==
    Translated =>
        /\ tr.gateway.is_success <=>
              (tr.response.status_code = 200 /\ ErrorAbsentOrFalsy(TrBody))
        /\ tr.gateway.error = FieldOf(TrBody, "error")
        /\ (tr.response.status_code = 200 /\ TrBody = EmptyBody) =>
              (tr.gateway.is_success /\ tr.gateway.error = None)
        /\ (/\ tr.response.status_code = 200
            /\ "error" \in DOMAIN TrBody
            /\ TrBody["error"] \in {JStr("declined"), JStr("tx_1")}) =>
              ~tr.gateway.is_success
        /\ tr.response.status_code # 200 => ~tr.gateway.is_success

C4_Witness ==
    /\ Translated
    /\ tr.response.status_code = 200
    /\ "error" \in DOMAIN TrBody
    /\ TrBody["error"] = JBool(FALSE)
    /\ tr.gateway.is_success

\* C5: the GatewayResponse of a payment call carries the amount and currency
\* of the payment_information passed in, whatever the response body holds,
\* amount and currency keys included.
C5_AmountCurrencyFromRequest ==
    Translated =>
        /\ tr.gateway.amount = tr.payment_information.amount
        /\ tr.gateway.currency = tr.payment_information.currency

C5_Witness ==
    /\ Translated
    /\ DOMAIN TrBody = {"amount", "currency"}
    /\ TrBody["amount"] = JNum("999")
    /\ TrBody["currency"] = JStr("tx_1")
    /\ tr.gateway.amount = JNum("10")
    /\ tr.gateway.currency = JStr("USD")

C7_SelectedWebhookEligible ==
    (IsPaymentCall /\ Count(last.steps, "invoke") > 0) =>
        /\ last.webhook # NoWebhook
        /\ last.webhook.is_active
        /\ PAYMENT_PROCESS \in WebhookTable[last.webhook.pk].events
        /\ last.webhook.app = WebhookTable[last.webhook.pk].app
        /\ last.webhook.app =
              from_payment_app_id(PaymentGateway[last.payment_information.payment_id])

C7_Witness ==
    /\ IsPaymentCall
    /\ Count(last.steps, "invoke") = 1
    /\ last.webhook.pk = "wh_2"
    /\ last.subscribers = {"wh_2"}
    /\ ~is_active["wh_1"]

\* C8: a process_payment call goes through gate check, app resolution,
\* subscription selection, payload generation, synchronous invocation and
\* translation in that order; it calls the synchronous invoker at most once,
\* exactly once when a webhook was selected, never when the gate is closed or
\* the selection is empty; it submits no async job.
C8_PaymentStepOrder ==
    IsPaymentCall =>
        /\ IsPrefix(last.steps, PaymentSteps)
        /\ Count(last.steps, "invoke") <= 1
        /\ last.webhook # NoWebhook => Count(last.steps, "invoke") = 1
        /\ (~last.gate \/ last.webhook = NoWebhook) => Count(last.steps, "invoke") = 0
        /\ last.enqueued = 0
        /\ Count(last.steps, "enqueue") = 0

C8_Witness ==
    /\ IsPaymentCall
    /\ last.steps = PaymentSteps
    /\ last.ret = "GatewayResponse"

\* C9: the translated response has kind capture; action_required is the
\* body's when present and false otherwise; transaction_id, customer_id,
\* action_required_data and the six payment-method fields are the body's keys
\* when present and absent otherwise; raw_response is the whole decoded body.
\* Status 200 with {transaction_id: tx_1, action_required: false} gives
\* is_success true, transaction_id tx_1, action_required false.
C9_FieldsFromBody ==
    Translated =>
        /\ tr.gateway.kind = "capture"
        /\ tr.gateway.action_required =
              (IF "action_required" \in DOMAIN TrBody
               THEN TrBody["action_required"] ELSE JBool(FALSE))
        /\ tr.gateway.transaction_id = FieldOf(TrBody, "transaction_id")
        /\ tr.gateway.customer_id = FieldOf(TrBody, "customer_id")
        /\ tr.gateway.action_required_data = FieldOf(TrBody, "action_required_data")
        /\ tr.gateway.payment_method_info.brand = FieldOf(TrBody, "payment_method_brand")
        /\ tr.gateway.payment_method_info.exp_month =
              FieldOf(TrBody, "payment_method_exp_month")
        /\ tr.gateway.payment_method_info.exp_year =
              FieldOf(TrBody, "payment_method_exp_year")
        /\ tr.gateway.payment_method_info.last_4 =
              FieldOf(TrBody, "payment_method_last_4")
        /\ tr.gateway.payment_method_info.name = FieldOf(TrBody, "payment_method_name")
        /\ tr.gateway.payment_method_info.type = FieldOf(TrBody, "payment_method_type")
        /\ tr.gateway.raw_response = TrBody
        /\ (/\ tr.response.status_code = 200
            /\ DOMAIN TrBody = {"transaction_id", "action_required"}
            /\ TrBody["transaction_id"] = JStr("tx_1")
            /\ TrBody["action_required"] = JBool(FALSE)) =>
              /\ tr.gateway.is_success
              /\ tr.gateway.transaction_id = JStr("tx_1")
              /\ tr.gateway.action_required = JBool(FALSE)

C9_Witness ==
    /\ Translated
    /\ tr.response.status_code = 200
    /\ DOMAIN TrBody = {"transaction_id", "action_required"}
    /\ TrBody["transaction_id"] = JStr("tx_1")
    /\ TrBody["action_required"] = JBool(FALSE)
    /\ tr.gateway.is_success
    /\ tr.gateway.raw_response = TrBody

====
